---------------------------- MODULE Spec2Model ----------------------------
(***************************************************************************)
(* AssetVerse server (src/index.js): the request-approval workflow.        *)
(*                                                                         *)
(* The document store is modelled by its four collections.  Every route    *)
(* handler is an async function: between two awaits it runs alone, and at  *)
(* every await other handlers may run.  The PATCH /requests/:id handler is *)
(* therefore modelled one store call at a time (Spec); SeqSpec runs each   *)
(* call to completion before anything else happens.  The other             *)
(* specifications are SeqSpec with one more kind of input each: asset      *)
(* edits (AssetSpec), every caller (AuthSpec), store calls that reject     *)
(* (FailSpec), users without a packageLimit and a limit of 0 (LimitSpec),  *)
(* every id and status (InputSpec), removals of employees (RemoveSpec),   *)
(* cancellations of requests (CancelSpec); SignupSpec runs POST /users one *)
(* store call at a time; SignedSpec starts from an HR that signed up and   *)
(* bought a package; RaceSpec interleaves approve calls, one store call at *)
(* a time, with cancellations.                                             *)
(***************************************************************************)
EXTENDS Integers, FiniteSets, Sequences, TLC

----------------------------------------------------------------------------
(* Bounds of the model *)

\* number of PATCH /requests/:id calls in one behaviour
NCall == 2
\* number of request documents that can be inserted
NReq == 2
\* number of POST /users calls that run step by step in one behaviour
NSignup == 2
\* largest newLimit a POST /payments body carries (the front end sends
\* 5, 10 or 20; small values bring the limit within reach of NCall calls)
MaxLimit == 1
\* largest productQuantity a POST /assets body carries
MaxQty == 1
\* the values new Date() can return
MaxDate == 2

(* Program constants *)

\* limit = hrUser?.packageLimit || 5
DefaultLimit == 5
\* finalUser.packageLimit = 5
SignupLimit == 5
\* approvalDate: null
Null == 0

HRs == {"hr1", "hr2"}
Emps == {"e1", "e2"}
AssetIds == {"a1"}
\* a request.assetId that new ObjectId() rejects
BadId == "bad"
Calls == 1..NCall
SignupCalls == 1..NSignup
ReqIds == 1..NReq
\* a req.params.id that new ObjectId() rejects
BadReqId == 0
\* the ids PATCH /requests/:id is called with
AnyIds == ReqIds \cup {BadReqId}
Dates == 1..MaxDate
NewLimits == 1..MaxLimit
Quantities == 1..MaxQty
\* the productQuantity a PATCH /assets/:id body carries
EditQuantities == 0..MaxQty
Statuses == {"approved", "rejected", "other"}
\* a body with no status
NoStatus == "missing"
AnyStatuses == Statuses \cup {NoStatus}
\* the token cookie: none, one jwt.verify rejects, or one POST /jwt signed
\* for a user (POST /jwt signs whatever body it is sent)
NoToken == "none"
BadToken == "forged"
Tokens == {NoToken, BadToken} \cup HRs \cup {"e1"}
\* the tokens the calls of Spec and SeqSpec carry
SomeTokens == {NoToken, "hr1"}

VARIABLES
    users,          \* usersCollection, by email
    assets,         \* assetsCollection, by _id
    requests,       \* requestsCollection, by _id
    affiliations,   \* employeeAffiliations: the number of rows per
                    \* (employeeEmail, hrEmail); nothing makes a row unique
    calls,          \* the PATCH /requests/:id calls
    raced,          \* history, not program state: raced[c] is the number of
                    \* rows other calls inserted for the HR of call c between
                    \* c's countDocuments and c's insertOne
    signups         \* the POST /users calls

vars == <<users, assets, requests, affiliations, calls, raced, signups>>

----------------------------------------------------------------------------
(* Documents.  A missing document is a record with exists = FALSE. *)

\* users[h] is the first document of usersCollection with email = h: the
\* only one findOne({email}) and updateOne({email}, ...) touch.  Only a
\* user created with role 'hr', or one a payment was saved for, has the
\* field packageLimit;\* docs is the number of documents with that email.
NoUser == [exists |-> FALSE, docs |-> 0, hasPackageLimit |-> FALSE,
           packageLimit |-> 0, currentEmployees |-> 0, subscription |-> "none"]

\* finalUser
NewUser(role) ==
    IF role = "hr"
    THEN [exists |-> TRUE, docs |-> 1, hasPackageLimit |-> TRUE,
          packageLimit |-> SignupLimit, currentEmployees |-> 0,
          subscription |-> "basic"]
    ELSE [exists |-> TRUE, docs |-> 1, hasPackageLimit |-> FALSE,
          packageLimit |-> 0, currentEmployees |-> 0, subscription |-> "none"]

\* one POST /users call: its body, its position and its response
IdleSignup == [pc |-> "idle", email |-> "hr1", role |-> "hr", resp |-> "none"]
NoAsset == [exists |-> FALSE, productQuantity |-> 0, availableQuantity |-> 0]
NoRequest == [exists |-> FALSE, requesterEmail |-> "e1", hrEmail |-> "hr1",
              assetId |-> "a1", requestStatus |-> "pending",
              approvalDate |-> Null, deleted |-> FALSE]

\* what is left of a request after deleteOne: its _id is never given again
DeletedRequest == [NoRequest EXCEPT !.deleted = TRUE]

\* the bodies POST /requests is called with: those of the front end carry
\* no requestStatus and no approvalDate, ForgedBody carries both
Body(e, h, a) == [requesterEmail |-> e, hrEmail |-> h, assetId |-> a,
                  requestStatus |-> "missing", approvalDate |-> Null]
ForgedBody == [requesterEmail |-> "e1", hrEmail |-> "hr1", assetId |-> "a1",
               requestStatus |-> "shipped", approvalDate |-> 1]
RequestBodies == {Body("e1", "hr1", "a1"), Body("e2", "hr1", "a1"),
                  Body("e1", "hr2", "a1"), Body("e1", "hr1", BadId),
                  ForgedBody}

\* the bodies POST /payments is called with
PaymentBodies == [hrEmail : {"hr1"}, newLimit : NewLimits]
\* the bodies of a package upgrade
UpgradeBodies == [hrEmail : {"hr1"}, newLimit : 1..(MaxLimit + 1)]
\* the same with newLimit 0
AnyPaymentBodies == [hrEmail : {"hr1"}, newLimit : 0..MaxLimit]
\* user.role in a POST /users body
Roles == {"hr", "employee"}

\* one PATCH /requests/:id call: its inputs, its position, its locals, the
\* response it sent, and the store call that rejected, if one did
IdleCall == [pc |-> "idle", user |-> NoToken, id |-> 1, status |-> "other",
             request |-> NoRequest, limit |-> 0,
             currentEmployees |-> 0, existingAffiliation |-> FALSE,
             resp |-> "none", failedAt |-> "none"]

DB == [users |-> users, assets |-> assets, requests |-> requests,
       affiliations |-> affiliations]

Pack(d, k) == [db |-> d, k |-> k]

----------------------------------------------------------------------------
(* Store operations *)

RECURSIVE SumOver(_, _)
SumOver(S, f) ==
    IF S = {} THEN 0
    ELSE LET x == CHOOSE y \in S : TRUE IN f[x] + SumOver(S \ {x}, f)

\* affiliationCollection.countDocuments({ hrEmail })
countDocuments(aff, h) == SumOver(Emps, [e \in Emps |-> aff[<<e, h>>]])

\* affiliationCollection.findOne({ employeeEmail, hrEmail }) is not null
findAffiliation(aff, e, h) == aff[<<e, h>>] > 0

\* hrUser?.packageLimit || 5: a missing document, a missing field and 0 are
\* all falsy
Limit(hrUser) ==
    IF hrUser.exists /\ hrUser.hasPackageLimit /\ hrUser.packageLimit # 0
    THEN hrUser.packageLimit
    ELSE DefaultLimit

\* a gate that lets the call through when the count equals the limit
LimitGate_Strict(k) == ~k.existingAffiliation /\ k.currentEmployees > k.limit

\* if (!existingAffiliation && currentEmployees >= limit)
LimitGate(k) == ~k.existingAffiliation /\ k.currentEmployees >= k.limit


----------------------------------------------------------------------------
(* PATCH /requests/:id, one operator per store call.  Each takes the store *)
(* d and the call k and gives the store and the call after the store call  *)
(* and the synchronous code that follows it up to the next await.          *)

\* verifyToken: no token, or one jwt.verify rejects, is answered 401
\* and the handler never runs; otherwise req.user = decoded
verifyToken(k, token, id, status) ==
    IF token \notin {NoToken, BadToken}
    THEN [k EXCEPT !.pc = "findRequest", !.user = token, !.id = id,
                   !.status = status]
    ELSE [k EXCEPT !.pc = "done", !.resp = "401"]

\* a handler whose second branch is an else: every status but 'rejected'
\* is taken as an approval
findRequest_ElseApproves(d, k) ==
    IF k.id = BadReqId
    THEN Pack(d, [k EXCEPT !.pc = "thrown"])
    ELSE
    LET request == d.requests[k.id] IN
    IF ~request.exists
    THEN Pack(d, [k EXCEPT !.pc = "done", !.resp = "404"])
    ELSE IF k.status = "rejected"
    THEN Pack(d, [k EXCEPT !.request = request, !.pc = "rejectUpdate"])
    ELSE Pack(d, [k EXCEPT !.request = request, !.pc = "findHrUser"])

\* new ObjectId(id) throws on a malformed id and the handler ends there;
\* otherwise requestsCollection.findOne(filter), the not-found check and
\* the choice of the branch
findRequest(d, k) ==
    IF k.id = BadReqId
    THEN Pack(d, [k EXCEPT !.pc = "thrown"])
    ELSE
    LET request == d.requests[k.id] IN
    IF ~request.exists
    THEN Pack(d, [k EXCEPT !.pc = "done", !.resp = "404"])
    ELSE IF k.status = "rejected"
    THEN Pack(d, [k EXCEPT !.request = request, !.pc = "rejectUpdate"])
    ELSE IF k.status = "approved"
    THEN Pack(d, [k EXCEPT !.request = request, !.pc = "findHrUser"])
    ELSE Pack(d, [k EXCEPT !.request = request, !.pc = "done"])

\* requestsCollection.updateOne(filter, { $set: { requestStatus, approvalDate } }):
\* a filter that matches no document updates nothing
setStatus(reqs, id, status, date) ==
    IF reqs[id].exists
    THEN [reqs EXCEPT ![id].requestStatus = status, ![id].approvalDate = date]
    ELSE reqs

\* a rejection that sets the status and leaves approvalDate as it was
rejectUpdate_NoDate(d, k, date) ==
    Pack([d EXCEPT !.requests = setStatus(d.requests, k.id, "rejected",
                                          d.requests[k.id].approvalDate)],
         [k EXCEPT !.pc = "done", !.resp = "rejected"])

\* the rejected branch
rejectUpdate(d, k, date) ==
    Pack([d EXCEPT !.requests = setStatus(d.requests, k.id, "rejected", date)],
         [k EXCEPT !.pc = "done", !.resp = "rejected"])

\* a handler that never reads packageLimit
findHrUser_DefaultOnly(d, k) ==
    Pack(d, [k EXCEPT !.limit = DefaultLimit, !.pc = "countEmployees"])

\* usersCollection.findOne({ email: request.hrEmail }) and the limit
findHrUser(d, k) ==
    Pack(d, [k EXCEPT !.limit = Limit(d.users[k.request.hrEmail]),
                      !.pc = "countEmployees"])

\* a count taken from the HR user's currentEmployees counter
countEmployees_FromCounter(d, k) ==
    Pack(d, [k EXCEPT !.currentEmployees =
                          d.users[k.request.hrEmail].currentEmployees,
                      !.pc = "findExisting"])

\* affiliationCollection.countDocuments({ hrEmail: request.hrEmail })
countEmployees(d, k) ==
    Pack(d, [k EXCEPT !.currentEmployees =
                          countDocuments(d.affiliations, k.request.hrEmail),
                      !.pc = "findExisting"])

\* a gate that compares the HR user's currentEmployees counter with the limit
findExisting_TrustsCounter(d, k) ==
    LET k1 == [k EXCEPT !.existingAffiliation =
                   findAffiliation(d.affiliations, k.request.requesterEmail,
                                   k.request.hrEmail)]
    IN  IF /\ ~k1.existingAffiliation
           /\ d.users[k.request.hrEmail].currentEmployees >= k1.limit
        THEN Pack(d, [k1 EXCEPT !.pc = "done", !.resp = "limitReached"])
        ELSE Pack(d, [k1 EXCEPT !.pc = "updateRequest"])

\* affiliationCollection.findOne({ employeeEmail, hrEmail }) and the gate
findExisting(d, k) ==
    LET k1 == [k EXCEPT !.existingAffiliation =
                   findAffiliation(d.affiliations, k.request.requesterEmail,
                                   k.request.hrEmail)]
    IN  IF LimitGate(k1)
        THEN Pack(d, [k1 EXCEPT !.pc = "done", !.resp = "limitReached"])
        ELSE Pack(d, [k1 EXCEPT !.pc = "updateRequest"])

\* Step A: requestsCollection.updateOne(filter, updateRequestDoc)
updateRequest(d, k, date) ==
    Pack([d EXCEPT !.requests = setStatus(d.requests, k.id, "approved", date)],
         [k EXCEPT !.pc = "updateAsset"])

\* a decrement by two
decrementAsset_Twice(as, a) ==
    IF a \in AssetIds /\ as[a].exists
    THEN [as EXCEPT ![a].availableQuantity = @ - 2]
    ELSE as

\* a decrement that stops at 0
decrementAsset_Floored(as, a) ==
    IF a \in AssetIds /\ as[a].exists /\ as[a].availableQuantity > 0
    THEN [as EXCEPT ![a].availableQuantity = @ - 1]
    ELSE as

\* $inc: { availableQuantity: -1 } on the asset with that _id, if any
decrementAsset(as, a) ==
    IF a \in AssetIds /\ as[a].exists
    THEN [as EXCEPT ![a].availableQuantity = @ - 1]
    ELSE as

\* a Step B that goes on to Step C whether or not an affiliation exists
updateAsset_AlwaysAffiliates(d, k) ==
    IF k.request.assetId = BadId
    THEN Pack(d, [k EXCEPT !.pc = "thrown"])
    ELSE Pack([d EXCEPT !.assets = decrementAsset(d.assets, k.request.assetId)],
              [k EXCEPT !.pc = "insertAffiliation"])

\* Step B: new ObjectId(request.assetId) throws on a malformed id and the
\* handler ends there; otherwise assetsCollection.updateOne, and with an
\* existing affiliation the response
updateAsset(d, k) ==
    IF k.request.assetId = BadId
    THEN Pack(d, [k EXCEPT !.pc = "thrown"])
    ELSE Pack([d EXCEPT !.assets = decrementAsset(d.assets, k.request.assetId)],
              IF k.existingAffiliation
              THEN [k EXCEPT !.pc = "done", !.resp = "approved"]
              ELSE [k EXCEPT !.pc = "insertAffiliation"])

\* Step C: affiliationCollection.insertOne(newAffiliation)
insertAffiliation(d, k) ==
    Pack([d EXCEPT !.affiliations[<<k.request.requesterEmail,
                                      k.request.hrEmail>>] = @ + 1],
         [k EXCEPT !.pc = "incEmployees"])

\* $inc: { currentEmployees: 1 } on the user with that email, if any
incCurrentEmployees(us, h) ==
    IF us[h].exists THEN [us EXCEPT ![h].currentEmployees = @ + 1] ELSE us

\* a Step C that responds without the $inc
incEmployees_NoInc(d, k) ==
    Pack(d, [k EXCEPT !.pc = "done", !.resp = "approved"])

\* usersCollection.updateOne({ email: request.hrEmail }, $inc) and the
\* response
incEmployees(d, k) ==
    Pack([d EXCEPT !.users = incCurrentEmployees(d.users, k.request.hrEmail)],
         [k EXCEPT !.pc = "done", !.resp = "approved"])

Ended(k) == k.pc \in {"done", "thrown"}

\* the store call the handler is waiting at
HandlerStep(d, k, date) ==
    CASE k.pc = "findRequest" -> findRequest(d, k)
      [] k.pc = "rejectUpdate" -> rejectUpdate(d, k, date)
      [] k.pc = "findHrUser" -> findHrUser(d, k)
      [] k.pc = "countEmployees" -> countEmployees(d, k)
      [] k.pc = "findExisting" -> findExisting(d, k)
      [] k.pc = "updateRequest" -> updateRequest(d, k, date)
      [] k.pc = "updateAsset" -> updateAsset(d, k)
      [] k.pc = "insertAffiliation" -> insertAffiliation(d, k)
      [] k.pc = "incEmployees" -> incEmployees(d, k)

\* the handler run from k to its end with no other handler in between
RECURSIVE RunCall(_, _, _)
RunCall(d, k, date) ==
    IF Ended(k) THEN Pack(d, k)
    ELSE LET r == HandlerStep(d, k, date) IN RunCall(r.db, r.k, date)

----------------------------------------------------------------------------
(* POST /users, one operator per store call *)

\* usersCollection.findOne({ email }) and the check of existingUser
findUser(us, k) ==
    IF us[k.email].exists
    THEN [users |-> us, k |-> [k EXCEPT !.pc = "done", !.resp = "exists"]]
    ELSE [users |-> us, k |-> [k EXCEPT !.pc = "insertUser"]]

\* usersCollection.insertOne(finalUser): the collection has no unique index,
\* so the document is added whatever the collection holds by now
insertUser(us, k) ==
    [users |-> [us EXCEPT ![k.email] =
                    IF us[k.email].exists
                    THEN [@ EXCEPT !.docs = @ + 1]
                    ELSE NewUser(k.role)],
     k |-> [k EXCEPT !.pc = "done", !.resp = "inserted"]]

----------------------------------------------------------------------------
(* PATCH /requests/:id with store calls that reject *)

\* the awaits of an approval
ApprovalCalls == {"findRequest", "findHrUser", "countEmployees",
                  "findExisting", "updateRequest", "updateAsset",
                  "insertAffiliation", "incEmployees"}

\* a handler that undoes Step A when a store call rejects
failStep_Compensates(d, k) ==
    Pack([d EXCEPT !.requests = setStatus(d.requests, k.id, "pending", Null)],
         [k EXCEPT !.failedAt = k.pc, !.pc = "thrown"])

\* the store call the handler is waiting at rejects: the store has not
\* changed, the await throws, and with no try/catch the handler ends there
failStep(d, k) == Pack(d, [k EXCEPT !.failedAt = k.pc, !.pc = "thrown"])

\* the handler run from k until its end or until the store call failAt
\* rejects
RECURSIVE RunCallFailing(_, _, _, _)
RunCallFailing(d, k, date, failAt) ==
    IF Ended(k) THEN Pack(d, k)
    ELSE IF k.pc = failAt THEN failStep(d, k)
    ELSE LET r == HandlerStep(d, k, date)
         IN  RunCallFailing(r.db, r.k, date, failAt)

----------------------------------------------------------------------------
(* Actions *)

Install(c, r) ==
    /\ users' = r.db.users
    /\ assets' = r.db.assets
    /\ requests' = r.db.requests
    /\ affiliations' = r.db.affiliations
    /\ calls' = [calls EXCEPT ![c] = r.k]

\* the slots are taken in order
CanArrive(c) ==
    /\ calls[c].pc = "idle"
    /\ \A c2 \in Calls : c2 < c => calls[c2].pc # "idle"

\* PATCH /requests/:id arrives and passes verifyToken
StartCall(c, id, status, token) ==
    /\ CanArrive(c)
    /\ calls' = [calls EXCEPT ![c] = verifyToken(IdleCall, token, id, status)]
    /\ UNCHANGED <<users, assets, requests, affiliations, raced, signups>>

\* date is what new Date() returns in this step
At(c, pc, date) ==
    calls[c].pc = pc /\ Install(c, HandlerStep(DB, calls[c], date))

FindRequest(c) == At(c, "findRequest", 1) /\ UNCHANGED <<raced, signups>>
RejectUpdate(c, date) == At(c, "rejectUpdate", date) /\ UNCHANGED <<raced, signups>>
FindHrUser(c) == At(c, "findHrUser", 1) /\ UNCHANGED <<raced, signups>>
CountEmployees(c) == At(c, "countEmployees", 1) /\ UNCHANGED <<raced, signups>>
FindExisting(c) == At(c, "findExisting", 1) /\ UNCHANGED <<raced, signups>>
UpdateRequest(c, date) == At(c, "updateRequest", date) /\ UNCHANGED <<raced, signups>>
UpdateAsset(c) == At(c, "updateAsset", 1) /\ UNCHANGED <<raced, signups>>
IncEmployees(c) == At(c, "incEmployees", 1) /\ UNCHANGED <<raced, signups>>

\* call c has counted the rows of HR h and has not yet inserted its own
Counted(c, h) ==
    /\ calls[c].pc \in {"findExisting", "updateRequest", "updateAsset",
                        "insertAffiliation"}
    /\ calls[c].request.hrEmail = h

InsertAffiliation(c) ==
    /\ At(c, "insertAffiliation", 1)
    /\ raced' = [c2 \in Calls |->
                    IF c2 # c /\ Counted(c2, calls[c].request.hrEmail)
                    THEN raced[c2] + 1 ELSE raced[c2]]
    /\ UNCHANGED signups

\* PATCH /requests/:id from its arrival to its end
ResolveCall(c, id, status, token, date) ==
    /\ CanArrive(c)
    /\ Install(c, RunCall(DB, verifyToken(IdleCall, token, id, status), date))
    /\ UNCHANGED <<raced, signups>>

\* PATCH /requests/:id from its arrival to the store call that rejects
ResolveCallFailing(c, id, status, token, date, failAt) ==
    /\ CanArrive(c)
    /\ Install(c, RunCallFailing(DB, verifyToken(IdleCall, token, id, status),
                                 date, failAt))
    /\ UNCHANGED <<raced, signups>>

\* the slots are taken in order
CanSignup(s) ==
    /\ signups[s].pc = "idle"
    /\ \A s2 \in SignupCalls : s2 < s => signups[s2].pc # "idle"

\* POST /users arrives and awaits findOne
SignupFind(s, h, role) ==
    /\ CanSignup(s)
    /\ LET r == findUser(users, [IdleSignup EXCEPT !.email = h, !.role = role])
       IN  users' = r.users /\ signups' = [signups EXCEPT ![s] = r.k]
    /\ UNCHANGED <<assets, requests, affiliations, calls, raced>>

\* the POST /users call awaits insertOne and responds
SignupInsert(s) ==
    /\ signups[s].pc = "insertUser"
    /\ LET r == insertUser(users, signups[s])
       IN  users' = r.users /\ signups' = [signups EXCEPT ![s] = r.k]
    /\ UNCHANGED <<assets, requests, affiliations, calls, raced>>

\* POST /users run to its end with no other handler in between: nothing is
\* inserted when the email exists; the HR fields are set for role 'hr' only
Signup(h, role) ==
    /\ ~users[h].exists
    /\ users' = [users EXCEPT ![h] = NewUser(role)]
    /\ UNCHANGED <<assets, requests, affiliations, calls, raced, signups>>

\* a purchase that starts the HR's team count again
Payment_ResetsCounter(payment) ==
    /\ users[payment.hrEmail].exists
    /\ users' = [users EXCEPT ![payment.hrEmail].hasPackageLimit = TRUE,
                              ![payment.hrEmail].packageLimit = payment.newLimit,
                              ![payment.hrEmail].subscription = "paid",
                              ![payment.hrEmail].currentEmployees = 0]
    /\ UNCHANGED <<assets, requests, affiliations, calls, raced, signups>>

\* POST /payments: $set packageLimit and subscription (the package's name)
\* on the user with that email, if any
Payment(payment) ==
    /\ users[payment.hrEmail].exists
    /\ users' = [users EXCEPT ![payment.hrEmail].hasPackageLimit = TRUE,
                              ![payment.hrEmail].packageLimit = payment.newLimit,
                              ![payment.hrEmail].subscription = "paid"]
    /\ UNCHANGED <<assets, requests, affiliations, calls, raced, signups>>

\* POST /assets
CreateAsset(a, q) ==
    /\ ~assets[a].exists
    /\ assets' = [assets EXCEPT ![a] =
                      [exists |-> TRUE, productQuantity |-> q,
                       availableQuantity |-> q]]
    /\ UNCHANGED <<users, requests, affiliations, calls, raced, signups>>

\* a newRequest built with the spread last: the body's requestStatus and
\* approvalDate win over the defaults
CreateRequest_SpreadLast(r, body) ==
    /\ ~requests[r].exists /\ ~requests[r].deleted
    /\ \A r2 \in ReqIds : r2 < r => requests[r2].exists \/ requests[r2].deleted
    /\ requests' = [requests EXCEPT ![r] =
                        [exists |-> TRUE,
                         requesterEmail |-> body.requesterEmail,
                         hrEmail |-> body.hrEmail,
                         assetId |-> body.assetId,
                         requestStatus |-> IF body.requestStatus = "missing"
                                           THEN "pending"
                                           ELSE body.requestStatus,
                         approvalDate |-> body.approvalDate,
                         deleted |-> FALSE]]
    /\ UNCHANGED <<users, assets, affiliations, calls, raced, signups>>

\* POST /requests: the body's requestStatus and approvalDate are replaced;
\* the store gives the ids in order
CreateRequest(r, body) ==
    /\ ~requests[r].exists /\ ~requests[r].deleted
    /\ \A r2 \in ReqIds : r2 < r => requests[r2].exists \/ requests[r2].deleted
    /\ requests' = [requests EXCEPT ![r] =
                        [exists |-> TRUE,
                         requesterEmail |-> body.requesterEmail,
                         hrEmail |-> body.hrEmail,
                         assetId |-> body.assetId,
                         requestStatus |-> "pending",
                         approvalDate |-> Null,
                         deleted |-> FALSE]]
    /\ UNCHANGED <<users, assets, affiliations, calls, raced, signups>>

\* DELETE /requests/:id with the _id of a stored request:
\* requestsCollection.deleteOne, whatever the requestStatus
DeleteRequest(r) ==
    /\ requests[r].exists
    /\ requests' = [requests EXCEPT ![r] = DeletedRequest]
    /\ UNCHANGED <<users, assets, affiliations, calls, raced, signups>>

\* a removal that also takes one off the HR's counter
RemoveAffiliate_AndCounter(e, h) ==
    /\ affiliations[<<e, h>>] > 0
    /\ affiliations' = [affiliations EXCEPT ![<<e, h>>] = @ - 1]
    /\ users' = [users EXCEPT ![h].currentEmployees =
                     IF users[h].exists /\ @ > 0 THEN @ - 1 ELSE @]
    /\ UNCHANGED <<assets, requests, calls, raced, signups>>

\* DELETE /affiliates/:id with the _id of a stored row of employee e and
\* HR h: affiliationCollection.deleteOne, nothing else
RemoveAffiliate(e, h) ==
    /\ affiliations[<<e, h>>] > 0
    /\ affiliations' = [affiliations EXCEPT ![<<e, h>>] = @ - 1]
    /\ UNCHANGED <<users, assets, requests, calls, raced, signups>>

\* PATCH /assets/:id: $set productQuantity on the asset with that _id, if
\* any; availableQuantity is not in the $set
EditAsset(a, q) ==
    /\ assets[a].exists
    /\ assets' = [assets EXCEPT ![a].productQuantity = q]
    /\ UNCHANGED <<users, requests, affiliations, calls, raced, signups>>

Init ==
    /\ users = [h \in HRs |-> NoUser]
    /\ assets = [a \in AssetIds |-> NoAsset]
    /\ requests = [r \in ReqIds |-> NoRequest]
    /\ affiliations = [p \in Emps \X HRs |-> 0]
    /\ calls = [c \in Calls |-> IdleCall]
    /\ raced = [c \in Calls |-> 0]
    /\ signups = [s \in SignupCalls |-> IdleSignup]

Setup ==
    \/ \E h \in HRs : Signup(h, "hr")
    \/ \E payment \in PaymentBodies : Payment(payment)
    \/ \E a \in AssetIds, q \in Quantities : CreateAsset(a, q)
    \/ \E r \in ReqIds, body \in RequestBodies : CreateRequest(r, body)

\* the handlers interleave at their awaits
Next ==
    \/ Setup
    \/ \E c \in Calls, id \in ReqIds, status \in Statuses,
          token \in SomeTokens :
           StartCall(c, id, status, token)
    \/ \E c \in Calls : FindRequest(c)
    \/ \E c \in Calls, date \in Dates : RejectUpdate(c, date)
    \/ \E c \in Calls : FindHrUser(c)
    \/ \E c \in Calls : CountEmployees(c)
    \/ \E c \in Calls : FindExisting(c)
    \/ \E c \in Calls, date \in Dates : UpdateRequest(c, date)
    \/ \E c \in Calls : UpdateAsset(c)
    \/ \E c \in Calls : InsertAffiliation(c)
    \/ \E c \in Calls : IncEmployees(c)

Spec == Init /\ [][Next]_vars

\* every call runs to its end before the next handler starts
SeqNext ==
    \/ Setup
    \/ \E c \in Calls, id \in ReqIds, status \in Statuses,
          token \in SomeTokens, date \in Dates :
           ResolveCall(c, id, status, token, date)

SeqSpec == Init /\ [][SeqNext]_vars

\* SeqSpec with cancellations of requests
CancelNext ==
    \/ SeqNext
    \/ \E r \in ReqIds : DeleteRequest(r)

CancelSpec == Init /\ [][CancelNext]_vars

\* approve calls of hr1 that interleave at their awaits with each other and
\* with cancellations of requests
RaceNext ==
    \/ Setup
    \/ \E c \in Calls, id \in ReqIds : StartCall(c, id, "approved", "hr1")
    \/ \E c \in Calls : FindRequest(c)
    \/ \E c \in Calls : FindHrUser(c)
    \/ \E c \in Calls : CountEmployees(c)
    \/ \E c \in Calls : FindExisting(c)
    \/ \E c \in Calls, date \in Dates : UpdateRequest(c, date)
    \/ \E c \in Calls : UpdateAsset(c)
    \/ \E c \in Calls : InsertAffiliation(c)
    \/ \E c \in Calls : IncEmployees(c)
    \/ \E r \in ReqIds : DeleteRequest(r)

RaceSpec == Init /\ [][RaceNext]_vars

\* SeqSpec with removals of employees from a team
RemoveNext ==
    \/ SeqNext
    \/ \E e \in Emps, h \in HRs : RemoveAffiliate(e, h)

RemoveSpec == Init /\ [][RemoveNext]_vars

\* SeqSpec with asset edits
AssetNext ==
    \/ SeqNext
    \/ \E a \in AssetIds, q \in EditQuantities : EditAsset(a, q)

AssetSpec == Init /\ [][AssetNext]_vars

\* SeqSpec with every caller
AuthNext ==
    \/ Setup
    \/ \E c \in Calls, id \in ReqIds, status \in Statuses,
          token \in Tokens, date \in Dates :
           ResolveCall(c, id, status, token, date)

AuthSpec == Init /\ [][AuthNext]_vars

\* SeqSpec with approvals in which a store call rejects
FailNext ==
    \/ SeqNext
    \/ \E c \in Calls, id \in ReqIds, date \in Dates,
          failAt \in ApprovalCalls :
           ResolveCallFailing(c, id, "approved", "hr1", date, failAt)

FailSpec == Init /\ [][FailNext]_vars

\* SeqSpec with users of either role and payments for a limit of 0
LimitNext ==
    \/ SeqNext
    \/ \E h \in HRs, role \in Roles : Signup(h, role)
    \/ \E payment \in AnyPaymentBodies : Payment(payment)

LimitSpec == Init /\ [][LimitNext]_vars

\* POST /users calls that interleave at their awaits, and payments
SignupNext ==
    \/ \E s \in SignupCalls, h \in HRs, role \in Roles : SignupFind(s, h, role)
    \/ \E s \in SignupCalls : SignupInsert(s)
    \/ \E payment \in AnyPaymentBodies : Payment(payment)

SignupSpec == Init /\ [][SignupNext]_vars

\* SeqSpec with every id and every status
InputNext ==
    \/ Setup
    \/ \E c \in Calls, id \in AnyIds, status \in AnyStatuses,
          token \in SomeTokens, date \in Dates :
           ResolveCall(c, id, status, token, date)

InputSpec == Init /\ [][InputNext]_vars

\* an HR user that signed up, bought the package of limit l and has n
\* employees
SignedUser(l, n) ==
    [NewUser("hr") EXCEPT !.packageLimit = l, !.currentEmployees = n,
                          !.subscription = "paid"]

\* The store after hr1 signed up and paid for a limit, with no employee, or
\* with the employee e2 whose request was approved and then cancelled
\* (DELETE /requests/:id): the states from which the limit is within reach
\* of NCall calls.
SignedInit ==
    /\ \E l \in NewLimits, n \in {0, 1} :
           /\ users = [h \in HRs |-> IF h = "hr1" THEN SignedUser(l, n)
                                                ELSE NoUser]
           /\ affiliations = [p \in Emps \X HRs |->
                                 IF p = <<"e2", "hr1">> THEN n ELSE 0]
    /\ assets = [a \in AssetIds |-> NoAsset]
    /\ requests = [r \in ReqIds |-> NoRequest]
    /\ calls = [c \in Calls |-> IdleCall]
    /\ raced = [c \in Calls |-> 0]
    /\ signups = [s \in SignupCalls |-> IdleSignup]

\* calls that run to their end, one after the other, with payments that
\* never lower the limit and with no user signing up after an approval
SignedNext ==
    \/ \E payment \in UpgradeBodies :
           /\ payment.newLimit >= Limit(users[payment.hrEmail])
           /\ Payment(payment)
    \/ \E a \in AssetIds, q \in Quantities : CreateAsset(a, q)
    \/ \E r \in ReqIds, body \in RequestBodies : CreateRequest(r, body)
    \/ \E c \in Calls, id \in ReqIds, status \in Statuses,
          token \in SomeTokens, date \in Dates :
           ResolveCall(c, id, status, token, date)

SignedSpec == SignedInit /\ [][SignedNext]_vars

----------------------------------------------------------------------------
(* The contract of one resolve call, under SeqSpec: a step that takes a    *)
(* call from idle to its end is the whole handler, the unprimed variables  *)
(* are the store before the call and the primed ones the store after it.   *)

\* call c ran in this step and got past verifyToken
Ran(c) ==
    /\ calls[c].pc = "idle"
    /\ Ended(calls'[c])
    /\ calls'[c].resp # "401"

\* call c ran in this step with that status on a request that exists
RanOn(c, status) ==
    /\ Ran(c)
    /\ calls'[c].status = status
    /\ requests[calls'[c].id].exists

\* the request of call c as it was before the call
Req(c) == requests[calls'[c].id]

Affiliated(r) == findAffiliation(affiliations, r.requesterEmail, r.hrEmail)
AtLimit(r) == countDocuments(affiliations, r.hrEmail) >= Limit(users[r.hrEmail])

\* only the request with that id changed, and only in its status and date
OnlyResolved(id, status) ==
    /\ requests'[id].requestStatus = status
    /\ requests'[id].approvalDate # Null
    /\ requests' = [requests EXCEPT ![id].requestStatus = status,
                                    ![id].approvalDate = requests'[id].approvalDate]

\* only that asset changed, if it exists: one unit less is available
OnlyDecremented(a) ==
    IF a \in AssetIds /\ assets[a].exists
    THEN assets' = [assets EXCEPT ![a].availableQuantity =
                                      assets[a].availableQuantity - 1]
    ELSE assets' = assets

\* C1: an approve call on a request whose requester has no Affiliation with
\* the request's HR, while the HR's rows are at or above the HR's limit,
\* answers limitReached = true (a normal response) and changes no request, no
\* asset, no Affiliation and no user, so the request stays as it was
\* (pending) and currentEmployees is unchanged.
C1_LimitReachedChangesNothing ==
    [][\A c \in Calls :
          (RanOn(c, "approved") /\ ~Affiliated(Req(c)) /\ AtLimit(Req(c)))
          => /\ calls'[c].pc = "done"
             /\ calls'[c].resp = "limitReached"
             /\ requests' = requests
             /\ assets' = assets
             /\ affiliations' = affiliations
             /\ users' = users]_vars

\* a finished call answered limitReached for a pending request of a new
\* employee of an HR at its limit
C1_Witness ==
    \E c \in Calls :
        /\ calls[c].resp = "limitReached"
        /\ requests[calls[c].id].requestStatus = "pending"
        /\ ~Affiliated(requests[calls[c].id])
        /\ AtLimit(requests[calls[c].id])
        /\ users[requests[calls[c].id].hrEmail].exists

\* C2: an approve call for a requester with no Affiliation with the HR,
\* while the HR's rows are below the limit, that completes (the handler ends
\* early only when request.assetId is no ObjectId) leaves exactly one new
\* Affiliation, for that pair, the HR user's currentEmployees one higher, the
\* asset's availableQuantity one lower and the request approved with a
\* non-null approvalDate.
C2_ApproveNewEmployee ==
    [][\A c \in Calls :
          (RanOn(c, "approved") /\ ~Affiliated(Req(c)) /\ ~AtLimit(Req(c)))
          => LET r == Req(c)
                 p == <<r.requesterEmail, r.hrEmail>>
             IN  /\ calls'[c].pc = "thrown" <=> r.assetId = BadId
                 /\ OnlyResolved(calls'[c].id, "approved")
                 /\ calls'[c].pc = "done" =>
                      /\ calls'[c].resp = "approved"
                      /\ affiliations' = [affiliations EXCEPT ![p] = 1]
                      /\ users' = IF users[r.hrEmail].exists
                                  THEN [users EXCEPT ![r.hrEmail].currentEmployees =
                                            users[r.hrEmail].currentEmployees + 1]
                                  ELSE users
                      /\ OnlyDecremented(r.assetId)]_vars

\* a call approved the request of a new employee: the row, the counter and
\* the decrement are there
C2_Witness ==
    \E c \in Calls :
        LET r == requests[calls[c].id] IN
        /\ calls[c].resp = "approved"
        /\ ~calls[c].existingAffiliation
        /\ calls[c].currentEmployees < users[r.hrEmail].packageLimit
        /\ r.requestStatus = "approved"
        /\ affiliations[<<r.requesterEmail, r.hrEmail>>] = 1
        /\ users[r.hrEmail].exists
        /\ users[r.hrEmail].currentEmployees = 1
        /\ r.assetId \in AssetIds
        /\ assets[r.assetId].exists
        /\ assets[r.assetId].availableQuantity = assets[r.assetId].productQuantity - 1

\* C3: an approve call for a requester who already has an Affiliation with
\* the HR, whatever the HR's row count is, creates no Affiliation, leaves
\* every user (so currentEmployees) unchanged, makes the request approved and
\* takes one unit from the asset's availableQuantity.
C3_ApproveAffiliatedEmployee ==
    [][\A c \in Calls :
          (RanOn(c, "approved") /\ Affiliated(Req(c)))
          => /\ affiliations' = affiliations
             /\ users' = users
             /\ OnlyResolved(calls'[c].id, "approved")
             /\ calls'[c].pc = "thrown" <=> Req(c).assetId = BadId
             /\ calls'[c].pc = "done" =>
                  /\ calls'[c].resp = "approved"
                  /\ OnlyDecremented(Req(c).assetId)]_vars

\* a call approved a request of an affiliated employee of an HR at its limit
C3_Witness ==
    \E c \in Calls :
        LET r == requests[calls[c].id] IN
        /\ calls[c].resp = "approved"
        /\ calls[c].existingAffiliation
        /\ calls[c].currentEmployees >= calls[c].limit
        /\ r.requestStatus = "approved"
        /\ affiliations[<<r.requesterEmail, r.hrEmail>>] = 1
        /\ r.assetId \in AssetIds
        /\ assets[r.assetId].exists
        /\ assets[r.assetId].availableQuantity < assets[r.assetId].productQuantity - 1

\* C4: a reject call on a pending request makes it rejected with a non-null
\* approvalDate and changes nothing else: no other request, no asset, no
\* Affiliation, no user; the limit plays no part.
C4_RejectPending ==
    [][\A c \in Calls :
          (RanOn(c, "rejected") /\ Req(c).requestStatus = "pending")
          => /\ calls'[c].pc = "done"
             /\ calls'[c].resp = "rejected"
             /\ OnlyResolved(calls'[c].id, "rejected")
             /\ assets' = assets
             /\ affiliations' = affiliations
             /\ users' = users]_vars

\* a call rejected the request of a new employee of an HR at its limit
C4_Witness ==
    \E c \in Calls :
        LET r == requests[calls[c].id] IN
        /\ calls[c].resp = "rejected"
        /\ r.requestStatus = "rejected"
        /\ r.approvalDate # Null
        /\ ~Affiliated(r)
        /\ AtLimit(r)
        /\ r.assetId \in AssetIds
        /\ assets[r.assetId].exists

\* C7: once a request is approved or rejected, no later resolve call changes
\* its requestStatus or approvalDate or anything else.
C7_ResolvedOnce ==
    [][\A c \in Calls :
          (Ran(c) /\ requests[calls'[c].id].exists
             /\ requests[calls'[c].id].requestStatus # "pending")
          => /\ requests' = requests
             /\ assets' = assets
             /\ affiliations' = affiliations
             /\ users' = users]_vars

\* C8: an approve call on a request that is already approved takes nothing
\* more from the asset and creates no further Affiliation.
C8_ApproveIdempotent ==
    [][\A c \in Calls :
          (RanOn(c, "approved") /\ Req(c).requestStatus = "approved")
          => /\ assets' = assets
             /\ affiliations' = affiliations]_vars

----------------------------------------------------------------------------
(* Concurrent calls, under Spec *)

\* call c inserts its Affiliation row in this step
Inserts(c) ==
    /\ calls[c].pc = "insertAffiliation"
    /\ calls'[c].pc = "incEmployees"

\* C5: the rows of an HR never exceed that HR's limit as a result of an
\* Affiliation an approval creates: every insertOne of an approval, made
\* while the HR's limit is still the one the call read, leaves at most limit
\* rows for that HR.
C5_RowsWithinLimit ==
    [][\A c \in Calls :
          LET h == calls[c].request.hrEmail IN
          (Inserts(c) /\ Limit(users[h]) = calls[c].limit)
          => countDocuments(affiliations', h) <= Limit(users[h])]_vars

\* C6: there is at most one Affiliation row per (employeeEmail, hrEmail).
C6_OneRowPerPair ==
    \A p \in Emps \X HRs : affiliations[p] <= 1

\* call c has set its request approved
SetApproved(c) ==
    \/ calls[c].pc \in {"updateAsset", "insertAffiliation", "incEmployees",
                        "thrown"}
    \/ calls[c].pc = "done" /\ calls[c].resp = "approved"

\* every side effect of the approval of call c is applied
EffectsApplied(c) == calls[c].pc = "done" /\ calls[c].resp = "approved"

\* C9: no state is reachable in which a call has set its request approved and
\* the decrement, the Affiliation (for a new pair) or the counter increment
\* of that approval is not applied.
C9_ResolutionAtomic ==
    \A c \in Calls : SetApproved(c) => EffectsApplied(c)

\* C10 as amended: racing approvals of new employees of one HR can all pass
\* the gate, and when a call inserts its row after k - 1 other calls inserted
\* theirs since it counted (k calls racing), the HR's rows exceed the limit
\* the call read by at most k - 1.
C10_ExcessBelowRacers ==
    [][\A c \in Calls :
          Inserts(c)
          => /\ countDocuments(affiliations', calls[c].request.hrEmail)
                  = calls[c].currentEmployees + raced[c] + 1
             /\ countDocuments(affiliations', calls[c].request.hrEmail)
                  - calls[c].limit <= raced[c]]_vars

\* two calls for two employees of one HR both counted limit - 1 rows, both
\* passed the gate and both inserted: the HR has limit + 1 rows
C10_Witness ==
    \E c1, c2 \in Calls :
        /\ c1 # c2
        /\ EffectsApplied(c1) /\ EffectsApplied(c2)
        /\ ~calls[c1].existingAffiliation /\ ~calls[c2].existingAffiliation
        /\ calls[c1].request.hrEmail = calls[c2].request.hrEmail
        /\ calls[c1].request.requesterEmail # calls[c2].request.requesterEmail
        /\ calls[c1].limit = calls[c2].limit
        /\ calls[c1].currentEmployees = calls[c1].limit - 1
        /\ calls[c2].currentEmployees = calls[c2].limit - 1
        /\ raced[c1] + raced[c2] = 1
        /\ countDocuments(affiliations, calls[c1].request.hrEmail)
             = calls[c1].limit + 1

\* C10 as stated: k racing approvals of distinct new employees take the HR's
\* rows to limit + k.  Taken in the case that gives the most rows: the call
\* counted limit - 1 rows and k - 1 >= 1 calls for other employees inserted
\* before it did.
C10_ExcessEqualsRacers ==
    [][\A c \in Calls :
          (Inserts(c) /\ raced[c] >= 1
             /\ affiliations[<<calls[c].request.requesterEmail,
                               calls[c].request.hrEmail>>] = 0
             /\ calls[c].currentEmployees = calls[c].limit - 1)
          => countDocuments(affiliations', calls[c].request.hrEmail)
               - calls[c].limit = raced[c] + 1]_vars

----------------------------------------------------------------------------
(* Assets *)

\* C11: for every asset, availableQuantity <= productQuantity in every
\* reachable state, under asset creation, asset edit and request approval.
C11_AvailableWithinProduct ==
    \A a \in AssetIds :
        assets[a].exists
        => assets[a].availableQuantity <= assets[a].productQuantity

\* the call gets past the limit gate
PassesGate(r) == Affiliated(r) \/ ~AtLimit(r)

\* C12: an approve call that passes the limit gate takes exactly 1 from the
\* asset's availableQuantity whatever its value is, with no check that it is
\* above 0: an approval at availableQuantity 0 succeeds and leaves -1.
C12_DecrementUnchecked ==
    [][\A c \in Calls :
          (RanOn(c, "approved") /\ PassesGate(Req(c))
             /\ Req(c).assetId \in AssetIds /\ assets[Req(c).assetId].exists)
          => /\ calls'[c].resp = "approved"
             /\ assets'[Req(c).assetId].availableQuantity
                  = assets[Req(c).assetId].availableQuantity - 1]_vars

\* an approval was answered and the asset has -1 units available
C12_Witness ==
    \E c \in Calls :
        /\ calls[c].resp = "approved"
        /\ calls[c].request.assetId \in AssetIds
        /\ assets[calls[c].request.assetId].exists
        /\ assets[calls[c].request.assetId].availableQuantity = -1

----------------------------------------------------------------------------
(* Who may resolve, and what a call with unusual inputs does *)

StoreUnchanged ==
    /\ requests' = requests
    /\ assets' = assets
    /\ affiliations' = affiliations
    /\ users' = users

\* call c ran in this step, from its arrival to its end
Handled(c) == calls[c].pc = "idle" /\ Ended(calls'[c])

\* the caller of c holds a valid token of the HR that owns c's request
ByOwner(c) ==
    /\ calls'[c].resp # "401"
    /\ requests[calls'[c].id].exists
    /\ calls'[c].user = Req(c).hrEmail

\* C13: a resolve call changes the store only when its caller is
\* authenticated and is the HR that owns the request: a call with no valid
\* token, or with the valid token of an employee or of another HR, changes no
\* request, asset, Affiliation or user.
C13_OnlyOwnerMutates ==
    [][\A c \in Calls : (Handled(c) /\ ~ByOwner(c)) => StoreUnchanged]_vars

\* the id of call c is the id of a request document
Found(c) == calls'[c].id \in ReqIds /\ requests[calls'[c].id].exists

\* C14: a resolve call whose id matches no request is answered 404 and
\* changes nothing, whatever the status in its body is.
C14_NotFound ==
    [][\A c \in Calls :
          (Ran(c) /\ ~Found(c))
          => /\ calls'[c].pc = "done"
             /\ calls'[c].resp = "404"
             /\ StoreUnchanged]_vars

\* C15: a resolve call on an existing request with a status other than
\* 'approved' and 'rejected', a missing status included, changes no request,
\* asset, Affiliation or user, and the handler ends without a response.
C15_OtherStatusNoOp ==
    [][\A c \in Calls :
          (Ran(c) /\ Found(c) /\ calls'[c].status \notin {"approved", "rejected"})
          => /\ calls'[c].pc = "done"
             /\ calls'[c].resp = "none"
             /\ StoreUnchanged]_vars

\* two calls on a pending request ended unanswered, one with another status
\* and one with none
C15_Witness ==
    \E c1, c2 \in Calls :
        /\ calls[c1].pc = "done" /\ calls[c1].resp = "none"
        /\ calls[c1].status = "other"
        /\ calls[c2].pc = "done" /\ calls[c2].resp = "none"
        /\ calls[c2].status = NoStatus
        /\ calls[c1].id = calls[c2].id
        /\ requests[calls[c1].id].exists
        /\ requests[calls[c1].id].requestStatus = "pending"

----------------------------------------------------------------------------
(* Store calls that reject, under FailSpec *)

\* C16: when a store call of an approval rejects, no later step is executed
\* and every earlier step stays as it was written, with no rollback.  A
\* failure before or at Step A changes nothing; a failure at the asset
\* decrement (or an assetId that is no ObjectId) leaves the request approved
\* with no decrement, no Affiliation and no counter increment; a failure at
\* the insert leaves the request approved and the asset decremented; a
\* failure at the counter increment leaves the Affiliation created too, with
\* the counter unchanged.
C16_FailureKeepsEarlierSteps ==
    [][\A c \in Calls :
          (RanOn(c, "approved") /\ calls'[c].pc = "thrown")
          => LET s == calls'[c].failedAt
                 r == Req(c)
                 p == <<r.requesterEmail, r.hrEmail>>
             IN  /\ s \in {"findRequest", "findHrUser", "countEmployees",
                           "findExisting", "updateRequest"}
                      => StoreUnchanged
                 /\ s \in {"updateAsset", "none"}
                      => /\ OnlyResolved(calls'[c].id, "approved")
                         /\ assets' = assets
                         /\ affiliations' = affiliations
                         /\ users' = users
                 /\ s = "insertAffiliation"
                      => /\ OnlyResolved(calls'[c].id, "approved")
                         /\ OnlyDecremented(r.assetId)
                         /\ affiliations' = affiliations
                         /\ users' = users
                 /\ s = "incEmployees"
                      => /\ OnlyResolved(calls'[c].id, "approved")
                         /\ OnlyDecremented(r.assetId)
                         /\ affiliations' = [affiliations EXCEPT ![p] = @ + 1]
                         /\ users' = users]_vars

\* one approval failed at the asset decrement and another at the counter
\* increment: both requests are approved, one unit is taken, one Affiliation
\* exists and the HR's counter is 0
C16_Witness ==
    \E c1, c2 \in Calls :
        LET r1 == requests[calls[c1].id]
            r2 == requests[calls[c2].id]
        IN  /\ calls[c1].pc = "thrown" /\ calls[c1].failedAt = "updateAsset"
            /\ calls[c2].pc = "thrown" /\ calls[c2].failedAt = "incEmployees"
            /\ calls[c1].id # calls[c2].id
            /\ r1.requestStatus = "approved" /\ r2.requestStatus = "approved"
            /\ r1.assetId = "a1" /\ r2.assetId = "a1"
            /\ assets["a1"].exists
            /\ assets["a1"].availableQuantity = assets["a1"].productQuantity - 1
            /\ r1.hrEmail = r2.hrEmail
            /\ countDocuments(affiliations, r2.hrEmail) = 1
            /\ affiliations[<<r2.requesterEmail, r2.hrEmail>>] = 1
            /\ users[r2.hrEmail].exists
            /\ users[r2.hrEmail].currentEmployees = 0

----------------------------------------------------------------------------
(* The limit and the count the gate uses *)

\* C17: the limit the gate of an approval uses is the stored packageLimit of
\* the request's HR whenever that user exists and has the field, for every
\* stored value, 0 included, and is 5 when the user or the field is absent.
C17_LimitIsStoredLimit ==
    [][\A c \in Calls :
          RanOn(c, "approved")
          => LET hrUser == users[Req(c).hrEmail]
             IN  calls'[c].limit = IF hrUser.exists /\ hrUser.hasPackageLimit
                                   THEN hrUser.packageLimit
                                   ELSE DefaultLimit]_vars

\* the store with the currentEmployees counter of user h set to n
WithCounter(h, n) == [DB EXCEPT !.users[h].currentEmployees = n]

\* C18: the outcome of an approval does not depend on the stored
\* currentEmployees counter of the request's HR: from two stores that differ
\* only in that counter, the same call gets the same answer and leaves the
\* same requests, assets and Affiliations.
C18_GateIgnoresCounter ==
    \A id \in ReqIds, n \in 0..NCall, date \in Dates :
        LET k == verifyToken(IdleCall, "hr1", id, "approved")
            r1 == RunCall(DB, k, date)
            r2 == RunCall(WithCounter(requests[id].hrEmail, n), k, date)
        IN  /\ r1.k.pc = r2.k.pc
            /\ r1.k.resp = r2.k.resp
            /\ r1.db.requests = r2.db.requests
            /\ r1.db.assets = r2.db.assets
            /\ r1.db.affiliations = r2.db.affiliations

\* an approval was answered limitReached while the counter of the HR was
\* below the limit, and another was let through
C18_Witness ==
    \E c1, c2 \in Calls :
        LET h == calls[c1].request.hrEmail IN
        /\ calls[c1].resp = "limitReached"
        /\ users[h].exists
        /\ users[h].currentEmployees < calls[c1].limit
        /\ countDocuments(affiliations, h) >= calls[c1].limit
        /\ calls[c2].resp = "approved"
        /\ calls[c2].request.hrEmail = h

----------------------------------------------------------------------------
(* Requests and users *)

\* C19: in every reachable state each request has requestStatus pending,
\* approved or rejected, and its approvalDate is null exactly when it is
\* pending; so a request POST /requests created is pending with a null
\* approvalDate whatever requestStatus and approvalDate its body carried.
C19_RequestShape ==
    \A r \in ReqIds :
        requests[r].exists
        => /\ requests[r].requestStatus \in {"pending", "approved", "rejected"}
           /\ requests[r].approvalDate = Null
                <=> requests[r].requestStatus = "pending"

\* one request is pending with no approvalDate while another was rejected by
\* one call and approved by another and has an approvalDate
C19_Witness ==
    \E r1, r2 \in ReqIds :
        /\ requests[r1].exists /\ requests[r2].exists
        /\ requests[r1].requestStatus = "pending"
        /\ requests[r1].approvalDate = Null
        /\ requests[r2].requestStatus # "pending"
        /\ requests[r2].approvalDate # Null
        /\ \E c1, c2 \in Calls :
               /\ calls[c1].id = r2 /\ calls[c1].resp = "rejected"
               /\ calls[c2].id = r2 /\ calls[c2].resp = "approved"

\* C20: user email is unique: after any sequence and any interleaving of
\* POST /users calls there is at most one user document per email.
C20_EmailUnique ==
    \A h \in HRs : users[h].docs <= 1

----------------------------------------------------------------------------
(* Calls one after the other, under SignedSpec *)

\* C21: when every resolve call runs to its end before the next starts, no
\* Affiliation is removed or inserted outside an approval and no packageLimit
\* is lowered, the rows of each HR are at most the limit the gate uses for
\* that HR, in every state.
C21_SequentialLimitSafety ==
    \A h \in HRs : countDocuments(affiliations, h) <= Limit(users[h])

\* the HR's rows are at its limit, and a call for another new employee was
\* answered limitReached
C21_Witness ==
    \E c \in Calls :
        LET h == calls[c].request.hrEmail IN
        /\ calls[c].resp = "limitReached"
        /\ users[h].exists
        /\ countDocuments(affiliations, h) = Limit(users[h])
        /\ requests[calls[c].id].requestStatus = "pending"

\* C22: for an HR that signed up through POST /users, after any sequence
\* of resolve calls that ran to their end one after the other, with no call
\* failing and no Affiliation removed, the HR user's currentEmployees is the
\* number of Affiliation rows with that hrEmail.
C22_CounterIsRowCount ==
    \A h \in HRs :
        users[h].exists
        => users[h].currentEmployees = countDocuments(affiliations, h)

\* an approval of a new employee and an approval of an affiliated one have
\* been answered, and the counter of their HR is its number of rows
C22_Witness ==
    \E c1, c2 \in Calls :
        LET h == calls[c1].request.hrEmail IN
        /\ calls[c1].resp = "approved" /\ ~calls[c1].existingAffiliation
        /\ calls[c2].resp = "approved" /\ calls[c2].existingAffiliation
        /\ calls[c2].request.hrEmail = h
        /\ users[h].exists
        /\ countDocuments(affiliations, h) >= 1
        /\ users[h].currentEmployees = countDocuments(affiliations, h)

(***************************************************************************)
(* Removal of an employee from a team, under RemoveSpec                     *)
(***************************************************************************)

\* the step removes one Affiliation row of HR h
Removes(h) ==
    /\ calls' = calls
    /\ countDocuments(affiliations', h) = countDocuments(affiliations, h) - 1

Retries(c) ==
    \E c0 \in Calls :
        /\ calls[c0].resp = "limitReached"
        /\ calls[c0].id = calls'[c].id

\* the step is a purchase for the HR h
Purchases(h) ==
    /\ calls' = calls
    /\ users'[h] # users[h]

Decrements(c) ==
    /\ calls[c].pc = "updateAsset"
    /\ calls'[c].pc # "updateAsset"
    /\ assets' # assets

\* C25: under any interleaving of approve calls with DELETE /requests/:id,
\* whenever a call takes a unit of the asset or creates the Affiliation, the
\* request of that call is in the store and approved.
C25_EffectsBackedByApproval ==
    [][\A c \in Calls :
          (Decrements(c) \/ Inserts(c))
          => /\ requests[calls[c].id].exists
             /\ requests[calls[c].id].requestStatus = "approved"]_vars

\* the step cancels request r
Cancels(r) == requests[r].exists /\ ~requests'[r].exists

\* C26: DELETE /requests/:id removes a request only while it is pending (an
\* approved or rejected request stays), and changes no asset, no
\* Affiliation and no user.
C26_CancelsOnlyPending ==
    [][\A r \in ReqIds :
          Cancels(r)
          => /\ requests[r].requestStatus = "pending"
             /\ assets' = assets
             /\ affiliations' = affiliations
             /\ users' = users]_vars

(***************************************************************************)
(* The response of a call, under InputSpec                                  *)
(***************************************************************************)

\* C27: every resolve call with status approved or rejected that passed
\* verifyToken ends having sent one response, that of one of its paths: not
\* found, rejected, limit reached or approved (with a new or an existing
\* Affiliation).
C27_OneResponse ==
    \A c \in Calls :
        (/\ calls[c].pc # "idle"
         /\ calls[c].resp # "401"
         /\ calls[c].status \in {"approved", "rejected"})
        => /\ calls[c].pc = "done"
           /\ calls[c].resp \in {"404", "rejected", "limitReached", "approved"}

=============================================================================
